---- MODULE Spec2Model ----
(***************************************************************************)
(* Model of spotify-playlist-backup (src/main.go): the token / OAuth       *)
(* start-up, the three paginated fetchers, the backup writer and the       *)
(* orchestration loop of main.                                             *)
(*                                                                         *)
(* Strings that the program inspects character by character (entity names  *)
(* and file names) are sequences of one-rune strings.  URLs are tuples;    *)
(* the empty URL "" is the empty tuple.                                    *)
(***************************************************************************)
EXTENDS Integers, Sequences, FiniteSets, TLC

\* ------------------------------------------------------------------ bounds
MaxNameLen == 4       \* longest generated entity name in the file-name runs
MaxPages == 2         \* pages after which the fixture server stops handing out cursors
MaxPlaylists == 2     \* playlists the user has at the provider
MaxCallbacks == 2     \* OAuth callbacks that may reach the local server in one run

\* ------------------------------------------------------- program constants
PlaylistsLimit == 50  \* fetchPlaylists: limit := 50
TracksLimit == 100    \* fetchPlaylistTracks: limit := 100
SavedLimit == 50      \* fetchSavedTracks: limit := 50

\* ------------------------------------------------------------------ strings
Letters ==
  {"a","b","c","d","e","f","g","h","i","j","k","l","m","n","o","p","q","r","s",
   "t","u","v","w","x","y","z","A","B","C","D","E","F","G","H","I","J","K","L",
   "M","N","O","P","Q","R","S","T","U","V","W","X","Y","Z"}

Digits == {"0","1","2","3","4","5","6","7","8","9"}

\* One non-ASCII rune (U+00E9); a single symbol, as the regexp engine sees it.
NonAscii == "U+00E9"

Slash == "/"

Dot == "."

\* The runes the generated names are drawn from.
Alphabet == {"a", "_", "1", Slash, Dot, "#", NonAscii}

\* regexp class [a-zA-Z0-9_] of saveJSONToFile
InClass(c) == c \in Letters \cup Digits \cup {"_"}

\* ------------------------------------------------- filepath.Clean (Unix)
\* Drop the last path element of the output buffer: out.w--, then back to the
\* previous separator or to dotdot.
RECURSIVE Backtrack(_, _)
Backtrack(buf, dotdot) ==
  IF Len(buf) > dotdot /\ buf[Len(buf)] # Slash
  THEN Backtrack(SubSeq(buf, 1, Len(buf) - 1), dotdot)
  ELSE buf

\* Index one past the end of the path element starting at r (1-based).
RECURSIVE ElementEnd(_, _)
ElementEnd(path, r) ==
  IF r <= Len(path) /\ path[r] # Slash THEN ElementEnd(path, r + 1) ELSE r

\* The scanning loop of Clean; r is the 1-based index of the next rune to read.
RECURSIVE CleanLoop(_, _, _, _, _)
CleanLoop(path, r, buf, dotdot, rooted) ==
  LET n == Len(path) IN
  IF r > n THEN buf
  ELSE IF path[r] = Slash
    THEN CleanLoop(path, r + 1, buf, dotdot, rooted)
  ELSE IF path[r] = Dot /\ (r = n \/ path[r + 1] = Slash)
    THEN CleanLoop(path, r + 1, buf, dotdot, rooted)
  ELSE IF path[r] = Dot /\ path[r + 1] = Dot /\ (r + 1 = n \/ path[r + 2] = Slash)
    THEN IF Len(buf) > dotdot
         THEN CleanLoop(path, r + 2,
                        Backtrack(SubSeq(buf, 1, Len(buf) - 1), dotdot),
                        dotdot, rooted)
         ELSE IF ~rooted
         THEN LET b == (IF Len(buf) > 0 THEN Append(buf, Slash) ELSE buf)
                       \o <<Dot, Dot>>
              IN CleanLoop(path, r + 2, b, Len(b), rooted)
         ELSE CleanLoop(path, r + 2, buf, dotdot, rooted)
  ELSE LET e == ElementEnd(path, r)
           b == IF (rooted /\ Len(buf) # 1) \/ (~rooted /\ Len(buf) # 0)
                THEN Append(buf, Slash) ELSE buf
       IN CleanLoop(path, e, b \o SubSeq(path, r, e - 1), dotdot, rooted)

CleanMutant(path) == path

Clean(path) ==
  IF path = <<>> THEN <<Dot>>
  ELSE LET rooted == path[1] = Slash
           out == IF rooted THEN CleanLoop(path, 2, <<Slash>>, 1, TRUE)
                            ELSE CleanLoop(path, 1, <<>>, 0, FALSE)
       IN IF out = <<>> THEN <<Dot>> ELSE out

\* ---------------- regexp.MustCompile(`[^a-zA-Z0-9_]+`).ReplaceAllString(s, "-")
\* Index one past the end of the leftmost-longest match starting at i.
RECURSIVE MatchEnd(_, _)
MatchEnd(s, i) ==
  IF i <= Len(s) /\ ~InClass(s[i]) THEN MatchEnd(s, i + 1) ELSE i

RECURSIVE ReplaceFrom(_, _)
ReplaceFrom(s, i) ==
  IF i > Len(s) THEN <<>>
  ELSE IF InClass(s[i]) THEN <<s[i]>> \o ReplaceFrom(s, i + 1)
  ELSE <<"-">> \o ReplaceFrom(s, MatchEnd(s, i))

ReplaceAllString(s) == ReplaceFrom(s, 1)

\* saveJSONToFile: cleanedFilename, safeFilename
SafeFilename(name) == ReplaceAllString(Clean(name))

\* ------------------------------------------------------------------- URLs
EmptyURL == <<>>

\* fmt.Sprintf("%s/v1/me/playlists?offset=0&limit=%d", baseAPIAddress, limit)
PlaylistsURL(offset) == <<"/v1/me/playlists", 0, offset, PlaylistsLimit>>

\* fmt.Sprintf("%s/v1/playlists/%s/tracks?offset=0&limit=%d", ..., playlist.Id, limit)
TracksURL(id, offset) == <<"/v1/playlists/%s/tracks", id, offset, TracksLimit>>

\* fmt.Sprintf("%s/v1/me/tracks?offset=0&limit=%d", baseAPIAddress, limit)
SavedURL(offset) == <<"/v1/me/tracks", 0, offset, SavedLimit>>

\* ------------------------------------------------ the provider (environment)
\* Entity 0 is the user's library (saved tracks); playlists have ids >= 1.
SavedEntity == 0

\* Names the provider gives to playlists (two playlists may carry one name).
PlaylistNames == { <<"a">>, <<"b">> }

\* Item counts of one page of the playlist listing, of a playlist's tracks
\* and of the saved tracks.
PlaylistPageSizes == {0, 1, 2}

TrackPageSizes == {0, 2}

SavedPageSizes == {0, 1, SavedLimit}

\* Track items of page k of an entity: distinct, tagged with entity and page.
TrackItems(ent, k, n) == [i \in 1..n |-> <<ent, k, i>>]

\* Playlist items of a listing page that follows `have` playlists: the ids
\* are distinct over the listing, the user has at most MaxPlaylists.
PlaylistItemLists(have) ==
  UNION { { [i \in 1..n |-> [Name |-> names[i], Id |-> have + i]]
            : names \in [1..n -> PlaylistNames] }
          : n \in { m \in PlaylistPageSizes : have + m <= MaxPlaylists } }

\* The `next` a page of request number k may carry: empty, or the same
\* collection at the following offset.  After MaxPages requests only a page
\* of saved tracks below the limit still carries a cursor (see Pages).
NextChoices(fn, ent, k) ==
  {EmptyURL} \cup
  (IF k < MaxPages
   THEN { CASE fn = "playlists" -> PlaylistsURL(k * PlaylistsLimit)
            [] fn = "tracks" -> TracksURL(ent, k * TracksLimit)
            [] OTHER -> SavedURL(k * SavedLimit) }
   ELSE {})

ItemChoices(fn, ent, k, have) ==
  CASE fn = "playlists" -> PlaylistItemLists(have)
    [] fn = "tracks" -> { TrackItems(ent, k, n) : n \in TrackPageSizes }
    [] OTHER -> { TrackItems(ent, k, n) : n \in SavedPageSizes }

\* Page envelopes (PlaylistPage / TracksPage: Items and Next; the other fields
\* are never read).
Pages(fn, ent, k, have) ==
  { [items |-> its, next |-> nx] :
      its \in ItemChoices(fn, ent, k, have), nx \in NextChoices(fn, ent, k) }
  \cup (IF fn = "saved"
        THEN { [items |-> TrackItems(ent, k, n), next |-> SavedURL(k * SavedLimit)] :
                 n \in { m \in SavedPageSizes : m < SavedLimit } }
        ELSE {})

ZeroPage == [items |-> <<>>, next |-> EmptyURL]

\* What json.Unmarshal can leave in the page struct when it reports an error
\* on the body of page p: nothing (syntax error: the struct keeps its zero
\* value), or the items without the cursor (type error in a later field).
DecodeLeftovers(p) == { ZeroPage, [items |-> p.items, next |-> EmptyURL] }

\* What one client.Get / ioutil.ReadAll / json.Unmarshal round can produce:
\*   getErr     Get fails, resp is nil (transport failure, token refresh
\*              failure, unsupported scheme of the empty URL)
\*   getErrResp Get fails with a non-nil resp (redirect policy failure)
\*   readErr    the body cannot be read
\*   decodeErr  Unmarshal reports an error; page is what it left in the struct
\*   ok         page decoded
Responses(fn, ent, k, url, have) ==
  IF url = EmptyURL
  THEN { [kind |-> "getErr", page |-> ZeroPage] }
  ELSE { [kind |-> kd, page |-> ZeroPage] : kd \in {"getErr", "getErrResp", "readErr"} }
       \cup { [kind |-> "ok", page |-> p] : p \in Pages(fn, ent, k, have) }
       \cup { [kind |-> "decodeErr", page |-> d] :
                d \in UNION { DecodeLeftovers(p) : p \in Pages(fn, ent, k, have) } }

\* ------------------------------------------------------------------- state
VARIABLES
  proc,        \* the process: "running", "done" (main returned), "fatal"
               \* (log.Fatal), "exit0" (os.Exit(0)), "panic" (nil dereference)
  pc,          \* where main is: "start", "oauthFlow", "fetchPlaylists",
               \* "fetchPlaylistTracks", "fetchSavedTracks", "end"
  tokenFile,   \* token_cache.json: "absent", "malformed" or "valid"
  handlers,    \* the /callback handler goroutines, by callback number
  tokenWrites, \* successful writes of token_cache.json in this run
  loop,        \* the running fetch: "idle", "running" or "returned"
  nextPageUrl, \* its nextPageUrl
  acc,         \* its accumulator (playlists / tracks)
  requests,    \* URLs it has sent a GET to, in order
  served,      \* what the provider answered, in order
  ret,         \* what it returned
  playlists,   \* main: the playlists slice
  idx,         \* main: position of the range loop over playlists
  dirExists,   \* whether ./backups exists
  files,       \* files written under ./backups in this run: name -> content
  fetched,     \* what the provider delivered of each fetched entity (by
               \* entity id): the items of its pages, in order
  listingPaged,\* whether the playlist listing took more than one GET
  tracksPaged, \* whether the tracks of some playlist took more than one GET
  logged,      \* playlists whose fetch error main has logged
  apiUsed,     \* whether a GET has been sent to the API in this run
  apiFailed    \* whether some GET round of this run did not end "ok"

vars == <<proc, pc, tokenFile, handlers, tokenWrites, loop, nextPageUrl, acc,
          requests, served, ret, playlists, idx, dirExists, files, fetched,
          listingPaged, tracksPaged, logged, apiUsed, apiFailed>>

authVars == <<tokenFile, handlers, tokenWrites>>
callVars == <<loop, nextPageUrl, acc, requests, served, ret>>
mainVars == <<playlists, idx, dirExists, files, fetched, listingPaged,
             tracksPaged, logged>>
apiVars == <<apiUsed, apiFailed>>

NoRet == [err |-> FALSE, isNil |-> TRUE, val |-> <<>>]

\* state := "random-string-for-state-check"
OAuthState == "random-string-for-state-check"

IdleHandler == [pc |-> "idle", receivedState |-> "", exchanges |-> 0, saves |-> 0]

Init ==
  /\ proc = "running"
  /\ pc = "start"
  /\ tokenFile \in {"absent", "malformed", "valid"}
  /\ handlers = [h \in 1..MaxCallbacks |-> IdleHandler]
  /\ tokenWrites = 0
  /\ loop = "idle"
  /\ nextPageUrl = EmptyURL
  /\ acc = <<>>
  /\ requests = <<>>
  /\ served = <<>>
  /\ ret = NoRet
  /\ playlists = <<>>
  /\ idx = 0
  /\ dirExists = FALSE
  /\ files = <<>>
  /\ fetched = <<>>
  /\ listingPaged = FALSE
  /\ tracksPaged = FALSE
  /\ logged = {}
  /\ apiUsed = FALSE
  /\ apiFailed = FALSE

\* The items of the answered pages, page by page (the provider's view).
RECURSIVE ConcatPageItems(_)
ConcatPageItems(rs) ==
  IF rs = <<>> THEN <<>> ELSE Head(rs).page.items \o ConcatPageItems(Tail(rs))

Delivered == ConcatPageItems(served)

\* ------------------------------------------------------------ the fetchers
\* The statements every fetcher starts with: empty accumulator, first URL.
StartFetch(url) ==
  /\ loop' = "running"
  /\ nextPageUrl' = url
  /\ acc' = <<>>
  /\ requests' = <<>>
  /\ served' = <<>>
  /\ ret' = NoRet

\* main has taken the result of the fetch: its frame and the provider's log
\* of it are gone.
EndFetch ==
  /\ loop' = "idle"
  /\ nextPageUrl' = EmptyURL
  /\ acc' = <<>>
  /\ requests' = <<>>
  /\ served' = <<>>
  /\ ret' = NoRet

\* return nil, errors.Wrap(err, ...)
ReturnErr ==
  /\ loop' = "returned"
  /\ ret' = [err |-> TRUE, isNil |-> TRUE, val |-> <<>>]
  /\ UNCHANGED <<nextPageUrl, acc, proc>>

\* return playlists, nil / return tracks, nil
ReturnOk(items) ==
  /\ loop' = "returned"
  /\ ret' = [err |-> FALSE, isNil |-> FALSE, val |-> items]
  /\ acc' = items
  /\ UNCHANGED proc

\* resp.Body.Close() on the nil resp of a failed Get: nil pointer dereference.
NilBodyClose ==
  /\ proc' = "panic"
  /\ UNCHANGED <<loop, nextPageUrl, acc, ret>>

\* playlists = append(playlists, page.Items...)
AppendItemsMutant(items, page) == page.items \o items

AppendItems(items, page) == items \o page.items

\* for nextPageUrl != "" { ... }
More(url) == url # EmptyURL

\* if len(savedTracksPage.Items) < limit { break }
ShortPageMutant(page) == page.next = EmptyURL

ShortPage(page) == Len(page.items) < SavedLimit

\* The GET the running fetcher sends next, as the provider sees it.
SendGet(r) ==
  /\ requests' = Append(requests, nextPageUrl)
  /\ served' = Append(served, r)
  /\ apiUsed' = TRUE
  /\ apiFailed' = (apiFailed \/ r.kind # "ok")

\* One iteration of the loop of fetchPlaylists, with the loop test that
\* follows it and the return when the test fails.
FetchPlaylistsPage ==
  /\ proc = "running"
  /\ pc = "fetchPlaylists"
  /\ loop = "running"
  /\ \E r \in Responses("playlists", 0, Len(requests) + 1, nextPageUrl, Len(acc)) :
       /\ SendGet(r)
       /\ CASE r.kind = "getErr" -> NilBodyClose
            [] r.kind \in {"getErrResp", "readErr"} -> ReturnErr
            [] OTHER ->
                 IF More(r.page.next)
                 THEN /\ acc' = AppendItems(acc, r.page)
                      /\ nextPageUrl' = r.page.next
                      /\ UNCHANGED <<loop, ret, proc>>
                 ELSE /\ ReturnOk(AppendItems(acc, r.page))
                      /\ nextPageUrl' = r.page.next
  /\ UNCHANGED <<pc, authVars, mainVars>>

\* One iteration of the loop of fetchPlaylistTracks for playlists[idx].
FetchPlaylistTracksPage ==
  /\ proc = "running"
  /\ pc = "fetchPlaylistTracks"
  /\ loop = "running"
  /\ \E r \in Responses("tracks", playlists[idx].Id, Len(requests) + 1,
                        nextPageUrl, Len(acc)) :
       /\ SendGet(r)
       /\ CASE r.kind = "getErr" -> NilBodyClose
            [] r.kind \in {"getErrResp", "readErr"} -> ReturnErr
            [] OTHER ->
                 IF More(r.page.next)
                 THEN /\ acc' = AppendItems(acc, r.page)
                      /\ nextPageUrl' = r.page.next
                      /\ UNCHANGED <<loop, ret, proc>>
                 ELSE /\ ReturnOk(AppendItems(acc, r.page))
                      /\ nextPageUrl' = r.page.next
  /\ UNCHANGED <<pc, authVars, mainVars>>

\* One iteration of the loop of fetchSavedTracks: `for { ... }` has no loop
\* test, the only exit without an error is the short-page break.
FetchSavedTracksPage ==
  /\ proc = "running"
  /\ pc = "fetchSavedTracks"
  /\ loop = "running"
  /\ \E r \in Responses("saved", SavedEntity, Len(requests) + 1, nextPageUrl,
                        Len(acc)) :
       /\ SendGet(r)
       /\ CASE r.kind \in {"getErr", "getErrResp", "readErr"} -> ReturnErr
            [] OTHER ->
                 IF ShortPage(r.page)
                 THEN /\ ReturnOk(AppendItems(acc, r.page))
                      /\ UNCHANGED nextPageUrl
                 ELSE /\ acc' = AppendItems(acc, r.page)
                      /\ nextPageUrl' = r.page.next
                      /\ UNCHANGED <<loop, ret, proc>>
  /\ UNCHANGED <<pc, authVars, mainVars>>

\* --------------------------------------------------------------- saveToken
\* json.Marshal of an oauth2.Token does not fail; ioutil.WriteFile may.
SaveToken(writeOk) ==
  /\ tokenFile' = IF writeOk THEN "valid" ELSE tokenFile
  /\ tokenWrites' = IF writeOk THEN tokenWrites + 1 ELSE tokenWrites

\* --------------------------------------------------------------- oauthFlow
\* if state != receivedState { log.Fatalf(...) }
StateMatchesMutant(receivedState) == TRUE

StateMatches(receivedState) == receivedState = OAuthState

\* The state values a callback request may carry.
CallbackStates == {OAuthState, "forged", ""}

\* log.Fatal(http.ListenAndServe(":8080", nil)): ListenAndServe returns only
\* with an error (the port is taken, the listener breaks).
ListenFails ==
  /\ proc = "running"
  /\ pc = "oauthFlow"
  /\ proc' = "fatal"
  /\ UNCHANGED <<pc, authVars, callVars, mainVars, apiVars>>

\* A request reaches /callback; net/http runs the handler in a goroutine of
\* its own.  The handler reads code and state, compares the state and, when
\* it matches, calls conf.Exchange.
Callback(h) ==
  /\ proc = "running"
  /\ pc = "oauthFlow"
  /\ handlers[h].pc = "idle"
  /\ IF h = 1 THEN TRUE ELSE handlers[h - 1].pc # "idle"
  /\ \E rs \in CallbackStates :
       IF StateMatches(rs)
       THEN /\ handlers' = [handlers EXCEPT ![h] =
                 [@ EXCEPT !.pc = "exchange", !.receivedState = rs, !.exchanges = 1]]
            /\ UNCHANGED proc
       ELSE /\ handlers' = [handlers EXCEPT ![h] =
                 [@ EXCEPT !.pc = "aborted", !.receivedState = rs]]
            /\ proc' = "fatal"
  /\ UNCHANGED <<pc, tokenFile, tokenWrites, callVars, mainVars, apiVars>>

\* conf.Exchange returns; on success saveToken(token) runs.
ExchangeReturns(h) ==
  /\ proc = "running"
  /\ pc = "oauthFlow"
  /\ handlers[h].pc = "exchange"
  /\ \E ok \in BOOLEAN, writeOk \in BOOLEAN :
       IF ~ok
       THEN /\ proc' = "fatal"
            /\ handlers' = [handlers EXCEPT ![h] = [@ EXCEPT !.pc = "aborted"]]
            /\ UNCHANGED <<tokenFile, tokenWrites>>
       ELSE /\ SaveToken(writeOk)
            /\ handlers' = [handlers EXCEPT ![h] =
                 [@ EXCEPT !.pc = IF writeOk THEN "respond" ELSE "aborted",
                           !.saves = @ + 1]]
            /\ proc' = IF writeOk THEN proc ELSE "fatal"
  /\ UNCHANGED <<pc, callVars, mainVars, apiVars>>

\* What the handler does to the process once the token is saved: os.Exit(0).
AfterSaveMutant == "running"

AfterSave == "exit0"

\* fmt.Fprintf(w, "Authorization successful. ..."); os.Exit(0)
HandlerExits(h) ==
  /\ proc = "running"
  /\ pc = "oauthFlow"
  /\ handlers[h].pc = "respond"
  /\ handlers' = [handlers EXCEPT ![h] = [@ EXCEPT !.pc = "responded"]]
  /\ proc' = AfterSave
  /\ UNCHANGED <<pc, tokenFile, tokenWrites, callVars, mainVars, apiVars>>

\* ----------------------------------------------------------- saveJSONToFile
\* What the file system does to one saveJSONToFile call.
FsOutcomes == {"ok", "writeErr"} \cup (IF dirExists THEN {} ELSE {"mkdirErr"})

\* One of the log.Fatalf of saveJSONToFile is reached.
SaveFails(fs) == fs # "ok"

\* ioutil.WriteFile truncates and rewrites the file of that name.
WriteFileMutant(fs, name, data) == fs @@ (name :> data)

WriteFile(fs, name, data) == (name :> data) @@ fs

\* Stat / Mkdir of ./backups, then WriteFile of backups/<safeFilename>.json.
SaveJSONToFile(name, data, fs) ==
  /\ dirExists' = (dirExists \/ fs # "mkdirErr")
  /\ files' = IF SaveFails(fs) THEN files
              ELSE WriteFile(files, SafeFilename(name), data)

\* "saved_tracks"
SavedTracksName == <<"s","a","v","e","d","_","t","r","a","c","k","s">>

\* -------------------------------------------------------------------- main
\* The range loop reaches position i: fetch the tracks of playlists[i], or,
\* past the end, fetch the saved tracks.
NextCall(pls, i) ==
  /\ idx' = i
  /\ IF i <= Len(pls)
     THEN /\ pc' = "fetchPlaylistTracks"
          /\ StartFetch(TracksURL(pls[i].Id, 0))
     ELSE /\ pc' = "fetchSavedTracks"
          /\ StartFetch(SavedURL(0))

\* godotenv.Load, loadToken, then oauthFlow or the call of fetchPlaylists.
MainStart ==
  /\ proc = "running"
  /\ pc = "start"
  /\ \E envOk \in BOOLEAN :
       IF ~envOk
       THEN proc' = "fatal" /\ UNCHANGED <<pc, callVars>>
       ELSE IF tokenFile = "valid"
       THEN pc' = "fetchPlaylists" /\ StartFetch(PlaylistsURL(0)) /\ UNCHANGED proc
       ELSE pc' = "oauthFlow" /\ UNCHANGED <<proc, callVars>>
  /\ UNCHANGED <<authVars, mainVars, apiVars>>

\* fetchPlaylists has returned.
MainAfterPlaylists ==
  /\ proc = "running"
  /\ pc = "fetchPlaylists"
  /\ loop = "returned"
  /\ IF ret.err
     THEN /\ proc' = "fatal"
          /\ EndFetch
          /\ UNCHANGED <<pc, playlists, idx, listingPaged>>
     ELSE /\ playlists' = ret.val
          /\ listingPaged' = (Len(requests) > 1)
          /\ NextCall(ret.val, 1)
          /\ UNCHANGED proc
  /\ UNCHANGED <<authVars, dirExists, files, fetched, tracksPaged, logged, apiVars>>

\* fetchPlaylistTracks has returned for playlists[idx].
MainAfterTracks ==
  /\ proc = "running"
  /\ pc = "fetchPlaylistTracks"
  /\ loop = "returned"
  /\ tracksPaged' = (tracksPaged \/ Len(requests) > 1)
  /\ IF ret.err
     THEN /\ logged' = logged \cup {playlists[idx].Id}
          /\ NextCall(playlists, idx + 1)
          /\ UNCHANGED <<proc, dirExists, files, fetched>>
     ELSE \E fs \in FsOutcomes :
            /\ SaveJSONToFile(playlists[idx].Name, ret.val, fs)
            /\ fetched' = (playlists[idx].Id :> Delivered) @@ fetched
            /\ IF SaveFails(fs)
               THEN proc' = "fatal" /\ EndFetch /\ UNCHANGED <<pc, idx>>
               ELSE NextCall(playlists, idx + 1) /\ UNCHANGED proc
            /\ UNCHANGED logged
  /\ UNCHANGED <<authVars, playlists, listingPaged, apiVars>>

\* fetchSavedTracks has returned.
MainAfterSaved ==
  /\ proc = "running"
  /\ pc = "fetchSavedTracks"
  /\ loop = "returned"
  /\ IF ret.err
     THEN /\ proc' = "fatal"
          /\ UNCHANGED <<pc, dirExists, files, fetched>>
     ELSE \E fs \in FsOutcomes :
            /\ SaveJSONToFile(SavedTracksName, ret.val, fs)
            /\ fetched' = (SavedEntity :> Delivered) @@ fetched
            /\ proc' = IF SaveFails(fs) THEN "fatal" ELSE "done"
            /\ pc' = IF SaveFails(fs) THEN pc ELSE "end"
  /\ EndFetch
  /\ UNCHANGED <<authVars, playlists, idx, listingPaged, tracksPaged, logged, apiVars>>

Next ==
  \/ MainStart
  \/ ListenFails
  \/ \E h \in 1..MaxCallbacks : Callback(h)
  \/ \E h \in 1..MaxCallbacks : ExchangeReturns(h)
  \/ \E h \in 1..MaxCallbacks : HandlerExits(h)
  \/ FetchPlaylistsPage
  \/ MainAfterPlaylists
  \/ FetchPlaylistTracksPage
  \/ MainAfterTracks
  \/ FetchSavedTracksPage
  \/ MainAfterSaved

Spec == Init /\ [][Next]_vars

\* ------------------------------------------------- file names in isolation
\* Entity names of up to MaxNameLen runes over Alphabet.
NamesOfLength(n) == [1..n -> Alphabet]

ExampleName ==
  <<"M","y"," ","P","l","a","y","l","i","s","t"," ","#","1","!">>

Names == UNION { NamesOfLength(n) : n \in 0..MaxNameLen } \cup {ExampleName}

\* main has just got the tracks of its only playlist, whose name is any of
\* Names, in one page; what follows is saveJSONToFile(p.Name, tracks).
InitName ==
  /\ proc = "running"
  /\ pc = "fetchPlaylistTracks"
  /\ tokenFile = "valid"
  /\ handlers = [h \in 1..MaxCallbacks |-> IdleHandler]
  /\ tokenWrites = 0
  /\ loop = "returned"
  /\ nextPageUrl = EmptyURL
  /\ acc = TrackItems(1, 1, 1)
  /\ requests = <<TracksURL(1, 0)>>
  /\ served = <<[kind |-> "ok",
                 page |-> [items |-> TrackItems(1, 1, 1), next |-> EmptyURL]]>>
  /\ ret = [err |-> FALSE, isNil |-> FALSE, val |-> TrackItems(1, 1, 1)]
  /\ \E n \in Names : playlists = <<[Name |-> n, Id |-> 1]>>
  /\ idx = 1
  /\ dirExists \in BOOLEAN
  /\ files = <<>>
  /\ fetched = <<>>
  /\ listingPaged = FALSE
  /\ tracksPaged = FALSE
  /\ logged = {}
  /\ apiUsed = TRUE
  /\ apiFailed = FALSE

NextName == MainAfterTracks

SpecName == InitName /\ [][NextName]_vars

\* ===================================================================== claims
Last(sq) == sq[Len(sq)]

AllOk(rs) == \A k \in 1..Len(rs) : rs[k].kind = "ok"

InCursorFetch == pc \in {"fetchPlaylists", "fetchPlaylistTracks"}

InFetch == pc \in {"fetchPlaylists", "fetchPlaylistTracks", "fetchSavedTracks"}

\* The offset=0 URL of the fetcher main is in.
FirstURL ==
  CASE pc = "fetchPlaylists" -> PlaylistsURL(0)
    [] pc = "fetchPlaylistTracks" -> TracksURL(playlists[idx].Id, 0)
    [] OTHER -> SavedURL(0)

ReturnedOk(items) ==
  loop = "returned" /\ ~ret.err /\ ~ret.isNil /\ ret.val = items

ReturnedErr == loop = "returned" /\ ret.err /\ ret.isNil /\ ret.val = <<>>

\* C1: in fetchPlaylists and fetchPlaylistTracks, as long as every page so
\* far was returned and decoded and all but the last carried a cursor, there
\* has been exactly one GET per page, the first against the offset=0 URL and
\* the k-th against the `next` of page k-1; when the last page has an empty
\* `next` the fetcher has returned, without error, the items of all pages in
\* page and item order, and otherwise it is about to request that `next`.
C1_CursorPaginationConcatenates ==
  (/\ InCursorFetch
   /\ served # <<>>
   /\ AllOk(served)
   /\ \A k \in 1..(Len(served) - 1) : served[k].page.next # EmptyURL)
  => /\ Len(requests) = Len(served)
     /\ requests[1] = FirstURL
     /\ \A k \in 2..Len(requests) : requests[k] = served[k - 1].page.next
     /\ proc # "panic"
     /\ IF Last(served).page.next = EmptyURL
        THEN ReturnedOk(ConcatPageItems(served))
        ELSE /\ loop = "running"
             /\ nextPageUrl = Last(served).page.next
             /\ acc = ConcatPageItems(served)

\* A playlist's tracks came in two non-empty pages and were returned.
C1_Witness ==
  /\ pc = "fetchPlaylistTracks"
  /\ Len(served) = 2
  /\ AllOk(served)
  /\ served[1].page.items # <<>>
  /\ served[2].page.items # <<>>
  /\ loop = "returned"
  /\ Len(ret.val) = 4

\* C2: when the GET for a page k >= 2 fails in transit after pages 1..k-1
\* were fetched, each fetcher returns an error and a nil slice, sends no
\* further request, and the process does not crash.
C2_TransportFailureReturnsError ==
  (/\ InFetch
   /\ Len(served) >= 2
   /\ Last(served).kind = "getErr"
   /\ Last(requests) # EmptyURL
   /\ AllOk(SubSeq(served, 1, Len(served) - 1)))
  => /\ proc # "panic"
     /\ ReturnedErr
     /\ Len(requests) = Len(served)

\* C3: when the fetch of one playlist's tracks fails, the process goes on:
\* the fetcher returns the error, main logs it and writes nothing for that
\* playlist, and a run that ends has fetched every other playlist and the
\* saved tracks.
C3_FailedPlaylistIsSkipped ==
  /\ (/\ pc = "fetchPlaylistTracks"
      /\ served # <<>>
      /\ Last(served).kind \in {"getErr", "getErrResp", "readErr"})
     => (proc # "panic" /\ ReturnedErr)
  /\ \A id \in logged : id \notin DOMAIN fetched
  /\ proc = "done" =>
       /\ SavedEntity \in DOMAIN fetched
       /\ \A i \in 1..Len(playlists) :
            playlists[i].Id \in logged \cup DOMAIN fetched

\* C4: in fetchSavedTracks a decoded page with fewer than 50 items ends the
\* fetch whatever its `next`: the fetcher has returned, without error, all
\* items up to and including that page, and has sent no request after it.
C4_SavedShortPageStops ==
  (/\ pc = "fetchSavedTracks"
   /\ served # <<>>
   /\ Last(served).kind = "ok"
   /\ Len(Last(served).page.items) < SavedLimit)
  => /\ ReturnedOk(ConcatPageItems(served))
     /\ Len(requests) = Len(served)
     /\ proc # "panic"

\* The second page of saved tracks is short and carries a cursor.
C4_Witness ==
  /\ pc = "fetchSavedTracks"
  /\ Len(served) = 2
  /\ Last(served).kind = "ok"
  /\ Len(Last(served).page.items) = 1
  /\ Last(served).page.next # EmptyURL
  /\ loop = "returned"
  /\ Len(ret.val) = SavedLimit + 1

Arrived(h) == handlers[h].pc # "idle"

\* C5: a callback whose state is not the issued one ends the process in its
\* handler: that handler never calls the token exchange nor saveToken, and
\* a run whose callbacks all carry a wrong state writes no token file.
C5_StateMismatchAborts ==
  /\ \A h \in 1..MaxCallbacks :
       (Arrived(h) /\ handlers[h].receivedState # OAuthState)
       => /\ handlers[h].pc = "aborted"
          /\ handlers[h].exchanges = 0
          /\ handlers[h].saves = 0
          /\ proc = "fatal"
  /\ (\A h \in 1..MaxCallbacks :
        Arrived(h) => handlers[h].receivedState # OAuthState)
     => (tokenWrites = 0 /\ (pc = "oauthFlow" => tokenFile # "valid"))

\* A forged callback has arrived.
C5_Witness ==
  /\ pc = "oauthFlow"
  /\ handlers[1].pc = "aborted"
  /\ handlers[1].receivedState = "forged"
  /\ proc = "fatal"

\* C6 (as claimed): a run in which every request succeeds, the listing takes
\* several pages and every playlist has one page of tracks ends with one
\* file per playlist plus one for the saved tracks, each holding the items
\* of its entity.
C6_OneFilePerPlaylist ==
  (/\ proc = "done"
   /\ ~apiFailed
   /\ listingPaged
   /\ ~tracksPaged)
  => /\ Cardinality(DOMAIN files) = Len(playlists) + 1
     /\ files[SavedTracksName] = fetched[SavedEntity]
     /\ \A i \in 1..Len(playlists) :
          /\ SafeFilename(playlists[i].Name) \in DOMAIN files
          /\ files[SafeFilename(playlists[i].Name)] = fetched[playlists[i].Id]

SafeName(i) == SafeFilename(playlists[i].Name)

DistinctSafeNames ==
  \A i \in 1..Len(playlists) :
    /\ SafeName(i) # SavedTracksName
    /\ \A j \in 1..Len(playlists) : j # i => SafeName(j) # SafeName(i)

\* C6 (amended): a run in which every request succeeds ends with one file
\* per distinct sanitized name among the playlists and "saved_tracks"; the
\* saved-tracks file holds the saved items, and a playlist's file holds its
\* items unless a later playlist or the saved tracks map to the same name.
\* With pairwise distinct sanitized names, none of them saved_tracks, that is
\* one file per playlist plus one.
C6_OneFilePerSafeName ==
  (proc = "done" /\ ~apiFailed)
  => /\ DOMAIN files = {SafeName(i) : i \in 1..Len(playlists)} \cup {SavedTracksName}
     /\ files[SavedTracksName] = fetched[SavedEntity]
     /\ \A i \in 1..Len(playlists) :
          (/\ SafeName(i) # SavedTracksName
           /\ \A j \in (i + 1)..Len(playlists) : SafeName(j) # SafeName(i))
          => /\ playlists[i].Id \in DOMAIN fetched
             /\ files[SafeName(i)] = fetched[playlists[i].Id]
     /\ DistinctSafeNames => Cardinality(DOMAIN files) = Len(playlists) + 1

\* Two playlists listed over two pages, one non-empty page of tracks each,
\* three files.
C6_Witness ==
  /\ proc = "done"
  /\ ~apiFailed
  /\ listingPaged
  /\ ~tracksPaged
  /\ Len(playlists) = 2
  /\ DistinctSafeNames
  /\ \A i \in 1..Len(playlists) : Len(files[SafeName(i)]) = 2
  /\ Cardinality(DOMAIN files) = 3

\* The rule of section 4.4 of the specification, position by position: an
\* allowed rune stays, the first rune of a run of others becomes "-", the
\* rest of the run goes.
AllowedRune(c) == c \in Letters \cup Digits \cup {"_"}

RunMarks(sq) ==
  [i \in 1..Len(sq) |->
     IF AllowedRune(sq[i]) THEN sq[i]
     ELSE IF i > 1 /\ ~AllowedRune(sq[i - 1]) THEN "" ELSE "-"]

Kept(c) == c # ""

RunsCollapsed(sq) == IF sq = <<>> THEN <<>> ELSE SelectSeq(RunMarks(sq), Kept)

\* Lexical cleaning of a path by its documented rules, element by element.
RECURSIVE PathElements(_)
PathElements(sq) ==
  IF sq = <<>> THEN << <<>> >>
  ELSE LET rest == PathElements(Tail(sq)) IN
       IF Head(sq) = Slash THEN << <<>> >> \o rest
       ELSE << <<Head(sq)>> \o Head(rest) >> \o Tail(rest)

RECURSIVE Resolve(_, _, _)
Resolve(elems, stack, rooted) ==
  IF elems = <<>> THEN stack
  ELSE LET e == Head(elems) IN
       IF e = <<>> \/ e = <<Dot>> THEN Resolve(Tail(elems), stack, rooted)
       ELSE IF e = <<Dot, Dot>>
       THEN IF stack # <<>> /\ Last(stack) # <<Dot, Dot>>
            THEN Resolve(Tail(elems), SubSeq(stack, 1, Len(stack) - 1), rooted)
            ELSE IF rooted THEN Resolve(Tail(elems), stack, rooted)
            ELSE Resolve(Tail(elems), Append(stack, e), rooted)
       ELSE Resolve(Tail(elems), Append(stack, e), rooted)

RECURSIVE JoinPath(_)
JoinPath(stack) ==
  IF stack = <<>> THEN <<>>
  ELSE IF Len(stack) = 1 THEN Head(stack)
  ELSE Head(stack) \o <<Slash>> \o JoinPath(Tail(stack))

CleanedByRules(sq) ==
  LET rooted == sq # <<>> /\ Head(sq) = Slash
      body == JoinPath(Resolve(PathElements(sq), <<>>, rooted))
      out == IF rooted THEN <<Slash>> \o body ELSE body
  IN IF out = <<>> THEN <<Dot>> ELSE out

HasSlash(sq) == \E i \in 1..Len(sq) : sq[i] = Slash

Written == files # <<>>

C8_SavedStopsOnEmptyNext ==
  pc = "fetchSavedTracks" =>
    /\ \A k \in 1..Len(requests) : requests[k] # EmptyURL
    /\ (/\ served # <<>>
        /\ AllOk(served)
        /\ Last(served).page.next = EmptyURL)
       => ReturnedOk(ConcatPageItems(served))

\* C9: a page whose body does not decode makes the fetcher return an error;
\* after a decode error it never returns a slice with a nil error.
C9_DecodeErrorAborts ==
  (InFetch /\ \E k \in 1..Len(served) : served[k].kind = "decodeErr")
  => /\ ~(loop = "returned" /\ ~ret.err)
     /\ Last(served).kind = "decodeErr" => ReturnedErr

Saved(h) == handlers[h].saves > 0

\* C10: main is in oauthFlow exactly when the cached token could not be
\* loaded; a run that entered oauthFlow never sends a GET to the API,
\* writes no backup file and never comes back to main; a callback whose
\* state matches and whose exchange succeeds calls saveToken exactly once,
\* and once the token is written the handler's only step left is os.Exit(0).
C10_OAuthFlowIsOneShot ==
  /\ pc \notin {"start", "oauthFlow"} => (tokenWrites = 0 /\ tokenFile = "valid")
  /\ (pc # "start" /\ tokenFile # "valid") => pc = "oauthFlow"
  /\ pc = "oauthFlow" =>
       /\ ~apiUsed
       /\ loop = "idle"
       /\ requests = <<>>
       /\ files = <<>>
       /\ proc \in {"running", "fatal", "exit0"}
  /\ \A h \in 1..MaxCallbacks :
       /\ handlers[h].saves <= 1
       /\ Saved(h) => /\ handlers[h].receivedState = OAuthState
                      /\ handlers[h].exchanges = 1
                      /\ handlers[h].pc \in {"respond", "responded", "aborted"}
       /\ handlers[h].pc \in {"respond", "responded"} =>
            (Saved(h) /\ tokenFile = "valid" /\ tokenWrites >= 1)
       /\ handlers[h].pc = "responded" => proc = "exit0"
       /\ (Saved(h) /\ handlers[h].pc = "aborted") => proc = "fatal"
  /\ tokenWrites <= Cardinality({h \in 1..MaxCallbacks : Saved(h)})
  /\ proc = "exit0" => (pc = "oauthFlow" /\ tokenWrites >= 1)

\* The first callback matched, its exchange succeeded, the token was written
\* and the process exited.
C10_Witness ==
  /\ pc = "oauthFlow"
  /\ handlers[1].pc = "responded"
  /\ handlers[1].saves = 1
  /\ tokenWrites = 1
  /\ tokenFile = "valid"
  /\ proc = "exit0"

====
